---- MODULE Spec2Model ----
(***************************************************************************)
(* Model of src/src/services/clobBridge.py: the FastAPI gateway in front   *)
(* of the Polymarket CLOB client.  The state is the module-level handle    *)
(* polymarket_client, the requests accepted by the server and not yet      *)
(* handled, and what the external client has been asked to do.  Every      *)
(* handler is an `async def` without any await, so the event loop runs a   *)
(* handler from its first line to its response without interleaving        *)
(* another one: one action per route, taken in any order over the          *)
(* requests in flight.                                                     *)
(***************************************************************************)
EXTENDS Integers, Sequences, FiniteSets

VARIABLES
    polymarket_client,  \* the global handle: NoClient (None) or an instance
    instances,          \* Polymarket() constructions that returned
    attempts,           \* Polymarket() constructions that were started
    calls,              \* methods invoked on a Polymarket instance
    pending,            \* requests accepted and not yet handled
    upstream,           \* the raw orders and positions the venue holds
    last                \* the request handled last, what it did and its response

vars == <<polymarket_client, instances, attempts, calls, pending, upstream, last>>

-----------------------------------------------------------------------------
(* Bounds of the model *)

MaxInFlight == 2   \* requests in flight at once
MaxRecords == 2    \* raw records in a list the client returns
MaxCalls == 3      \* no request is handled once this many client calls were made
MaxAttempts == 2   \* nor once this many constructions were started

-----------------------------------------------------------------------------
(* Python values *)

NoClient == 0

None == [t |-> "none"]
Num(n) == [t |-> "num", n |-> n]
Str(s) == [t |-> "str", s |-> s]       \* a string nothing looks into
Chars(c) == [t |-> "str", c |-> c]     \* a string spelt out, for float()
List(l) == [t |-> "list", l |-> l]

\* str(e) is a sequence of text fragments, so that "contains" can be asked of it
Exc(cls, text) == [cls |-> cls, str |-> text]

\* starlette.HTTPException: str(e) is "" in builds whose HTTPException defines
\* no __str__ and "<status_code>: <detail>" in those that do; strform says which
StatusPrefix(status_code) == IF status_code = 400 THEN "400: " ELSE "500: "

HTTPException(status_code, detail, strform) ==
    [cls |-> "HTTPException", status_code |-> status_code, detail |-> detail,
     str |-> IF strform = "status_detail"
             THEN <<StatusPrefix(status_code)>> \o detail
             ELSE <<>>]

Returns(v) == [raised |-> FALSE, value |-> v]
Raises(e) == [raised |-> TRUE, exc |-> e]

\* dict.get(key, default)
Get(d, key, default) == IF key \in DOMAIN d THEN d[key] ELSE default

DigitVal == [c \in {"0", "1", "2", "3", "4", "5", "6", "7", "8", "9"} |->
    CASE c = "0" -> 0 [] c = "1" -> 1 [] c = "2" -> 2 [] c = "3" -> 3
      [] c = "4" -> 4 [] c = "5" -> 5 [] c = "6" -> 6 [] c = "7" -> 7
      [] c = "8" -> 8 [] c = "9" -> 9]

RECURSIVE Decimal(_)
Decimal(s) ==
    IF Len(s) = 0 THEN 0
    ELSE 10 * Decimal(SubSeq(s, 1, Len(s) - 1)) + DigitVal[s[Len(s)]]

\* float(v): a number converts to itself, a string of digits is parsed, any
\* other string raises ValueError and None raises TypeError
float(v) ==
    CASE v.t = "num" -> Returns(Num(v.n))
      [] v.t = "str" ->
            IF Len(v.c) > 0 /\ \A i \in 1..Len(v.c) : v.c[i] \in DOMAIN DigitVal
            THEN Returns(Num(Decimal(v.c)))
            ELSE Raises(Exc("ValueError",
                            <<"could not convert string to float">>))
      [] OTHER ->
            Raises(Exc("TypeError",
                       <<"float() argument must be a string or a real number">>))

-----------------------------------------------------------------------------
(* The client handle *)

\* get_client() that remembers a failed construction in the handle
get_client_caching_failure(handle, ctor) ==
    IF handle = NoClient
    THEN IF ctor.raised
         THEN [handle |-> -1, attempted |-> TRUE, created |-> FALSE,
               raised |-> TRUE, exc |-> ctor.exc]
         ELSE [handle |-> ctor.value, attempted |-> TRUE, created |-> TRUE,
               raised |-> FALSE, exc |-> None]
    ELSE [handle |-> handle, attempted |-> FALSE, created |-> FALSE,
          raised |-> FALSE, exc |-> None]

\* get_client() without the test for None
get_client_always_constructing(handle, ctor) ==
    IF ctor.raised
    THEN [handle |-> handle, attempted |-> TRUE, created |-> FALSE,
          raised |-> TRUE, exc |-> ctor.exc]
    ELSE [handle |-> ctor.value, attempted |-> TRUE, created |-> TRUE,
          raised |-> FALSE, exc |-> None]

\* get_client(): ctor is what Polymarket() does if it is called
get_client(handle, ctor) ==
    IF handle = NoClient
    THEN IF ctor.raised
         THEN [handle |-> NoClient, attempted |-> TRUE, created |-> FALSE,
               raised |-> TRUE, exc |-> ctor.exc]
         ELSE [handle |-> ctor.value, attempted |-> TRUE, created |-> TRUE,
               raised |-> FALSE, exc |-> None]
    ELSE [handle |-> handle, attempted |-> FALSE, created |-> FALSE,
          raised |-> FALSE, exc |-> None]

-----------------------------------------------------------------------------
(* The handlers.  A handler's result: the handle it leaves, whether it     *)
(* started and finished a construction, the client calls it made with      *)
(* their outcomes, and what it returns or raises to FastAPI.               *)

Call(method, outcome) == [method |-> method, outcome |-> outcome]

Result(g, trace, out) ==
    [handle |-> g.handle, attempted |-> g.attempted, created |-> g.created,
     ctor_raised |-> g.raised, ctor_exc |-> g.exc, trace |-> trace, out |-> out]

NoGet(handle) ==
    [handle |-> handle, attempted |-> FALSE, created |-> FALSE,
     raised |-> FALSE, exc |-> None]

\* an except clause that hides the failure's text
except_Exception_generic(e) ==
    Raises(HTTPException(500, <<"Internal Server Error">>, "none"))

\* except Exception as e: raise HTTPException(status_code=500, detail=str(e))
except_Exception(e) == Raises(HTTPException(500, e.str, "none"))

\* a health check that looks at the client
health_check_probing_client(handle, ctor) ==
    LET g == get_client(handle, ctor)
    IN  IF g.raised THEN Result(g, <<>>, except_Exception(g.exc))
        ELSE Result(g, <<>>,
                    Returns([status |-> "ok", service |-> "polymarket-clob-bridge"]))

\* GET /health
health_check(handle, ctor) ==
    Result(NoGet(handle), <<>>,
           Returns([status |-> "ok", service |-> "polymarket-clob-bridge"]))

\* GET /balance
get_balance(handle, ctor, o_balance, o_address) ==
    LET g == get_client(handle, ctor)
        c1 == Call("get_balance", o_balance)
        c2 == Call("get_address_for_private_key", o_address)
    IN  IF g.raised THEN Result(g, <<>>, except_Exception(g.exc))
        ELSE IF o_balance.raised
        THEN Result(g, <<c1>>, except_Exception(o_balance.exc))
        ELSE IF o_address.raised
        THEN Result(g, <<c1, c2>>, except_Exception(o_address.exc))
        ELSE Result(g, <<c1, c2>>,
                    Returns([usdc_balance |-> o_balance.value,
                             address |-> o_address.value]))

\* a loop that leaves out the records without a price
RECURSIVE order_loop_skipping(_, _, _)
order_loop_skipping(orders, i, order_list) ==
    IF i > Len(orders) THEN Returns(order_list)
    ELSE LET order == orders[i]
             price == float(Get(order, "price", Num(0)))
             size == float(Get(order, "size", Num(0)))
         IN  IF "price" \notin DOMAIN order
             THEN order_loop_skipping(orders, i + 1, order_list)
             ELSE IF price.raised THEN price
             ELSE IF size.raised THEN size
             ELSE order_loop_skipping(orders, i + 1, Append(order_list,
                    [id |-> Get(order, "id", None),
                     market_id |-> Get(order, "market", None),
                     token_id |-> Get(order, "asset_id", None),
                     side |-> Get(order, "side", None),
                     price |-> price.value,
                     size |-> size.value,
                     status |-> Get(order, "status", None),
                     timestamp |-> Get(order, "created_at", None)]))

\* the loop of get_open_orders, from record i on
RECURSIVE order_loop(_, _, _)
order_loop(orders, i, order_list) ==
    IF i > Len(orders) THEN Returns(order_list)
    ELSE LET order == orders[i]
             price == float(Get(order, "price", Num(0)))
             size == float(Get(order, "size", Num(0)))
         IN  IF price.raised THEN price
             ELSE IF size.raised THEN size
             ELSE order_loop(orders, i + 1, Append(order_list,
                    [id |-> Get(order, "id", None),
                     market_id |-> Get(order, "market", None),
                     token_id |-> Get(order, "asset_id", None),
                     side |-> Get(order, "side", None),
                     price |-> price.value,
                     size |-> size.value,
                     status |-> Get(order, "status", None),
                     timestamp |-> Get(order, "created_at", None)]))

\* GET /orders
get_open_orders(handle, ctor, o_orders) ==
    LET g == get_client(handle, ctor)
        c == Call("get_orders", o_orders)
    IN  IF g.raised THEN Result(g, <<>>, except_Exception(g.exc))
        ELSE IF o_orders.raised
        THEN Result(g, <<c>>, except_Exception(o_orders.exc))
        ELSE LET order_list == order_loop(o_orders.value.l, 1, <<>>)
             IN  IF order_list.raised
                 THEN Result(g, <<c>>, except_Exception(order_list.exc))
                 ELSE Result(g, <<c>>,
                             Returns([orders |-> order_list.value,
                                      total |-> Len(order_list.value)]))

\* the loop of get_positions, from record i on
RECURSIVE position_loop(_, _, _)
position_loop(positions, i, position_list) ==
    IF i > Len(positions) THEN Returns(position_list)
    ELSE LET pos == positions[i]
             size == float(Get(pos, "size", Num(0)))
             value == float(Get(pos, "value", Num(0)))
             entry_price == float(Get(pos, "entry_price", Num(0)))
             current_price == float(Get(pos, "current_price", Num(0)))
             pnl == float(Get(pos, "pnl", Num(0)))
         IN  IF size.raised THEN size
             ELSE IF value.raised THEN value
             ELSE IF entry_price.raised THEN entry_price
             ELSE IF current_price.raised THEN current_price
             ELSE IF pnl.raised THEN pnl
             ELSE position_loop(positions, i + 1, Append(position_list,
                    [token_id |-> Get(pos, "asset_id", None),
                     market |-> Get(pos, "market", None),
                     side |-> Get(pos, "side", None),
                     size |-> size.value,
                     value |-> value.value,
                     entry_price |-> entry_price.value,
                     current_price |-> current_price.value,
                     pnl |-> pnl.value]))

\* GET /positions
get_positions(handle, ctor, o_positions) ==
    LET g == get_client(handle, ctor)
        c == Call("get_positions", o_positions)
    IN  IF g.raised THEN Result(g, <<>>, except_Exception(g.exc))
        ELSE IF o_positions.raised
        THEN Result(g, <<c>>, except_Exception(o_positions.exc))
        ELSE LET position_list == position_loop(o_positions.value.l, 1, <<>>)
             IN  IF position_list.raised
                 THEN Result(g, <<c>>, except_Exception(position_list.exc))
                 ELSE Result(g, <<c>>,
                             Returns([positions |-> position_list.value,
                                      total |-> Len(position_list.value)]))

\* a market order placed again after a failure
place_market_order_retrying(handle, ctor, order_request, o_result) ==
    LET g == get_client(handle, ctor)
        c == Call("place_market_order", o_result)
    IN  IF g.raised THEN Result(g, <<>>, except_Exception(g.exc))
        ELSE IF o_result.raised
        THEN Result(g, <<c, c>>, except_Exception(o_result.exc))
        ELSE Result(g, <<c>>,
                    Returns([success |-> TRUE,
                             order_id |-> Get(o_result.value, "id", None),
                             status |-> Get(o_result.value, "status", None),
                             filled_amount |->
                                 Get(o_result.value, "filled_amount", None)]))

\* POST /order/market
place_market_order(handle, ctor, order_request, o_result) ==
    LET g == get_client(handle, ctor)
        c == Call("place_market_order", o_result)
    IN  IF g.raised THEN Result(g, <<>>, except_Exception(g.exc))
        ELSE IF o_result.raised
        THEN Result(g, <<c>>, except_Exception(o_result.exc))
        ELSE Result(g, <<c>>,
                    Returns([success |-> TRUE,
                             order_id |-> Get(o_result.value, "id", None),
                             status |-> Get(o_result.value, "status", None),
                             filled_amount |->
                                 Get(o_result.value, "filled_amount", None)]))

\* a limit order that obtains the client before it checks the price
place_limit_order_client_first(handle, ctor, order_request, o_result, strform) ==
    LET g == get_client(handle, ctor)
        c == Call("place_limit_order", o_result)
    IN  IF g.raised THEN Result(g, <<>>, except_Exception(g.exc))
        ELSE IF order_request.price = None
        THEN Result(g, <<>>,
                    except_Exception(HTTPException(400,
                        <<"Price is required for limit orders">>, strform)))
        ELSE IF o_result.raised
        THEN Result(g, <<c>>, except_Exception(o_result.exc))
        ELSE Result(g, <<c>>,
                    Returns([success |-> TRUE,
                             order_id |-> Get(o_result.value, "id", None),
                             status |-> Get(o_result.value, "status", None)]))

\* POST /order/limit: the HTTPException of the price check is raised inside
\* the try block, and HTTPException is an Exception
place_limit_order(handle, ctor, order_request, o_result, strform) ==
    IF order_request.price = None
    THEN Result(NoGet(handle), <<>>,
                except_Exception(HTTPException(400,
                    <<"Price is required for limit orders">>, strform)))
    ELSE LET g == get_client(handle, ctor)
             c == Call("place_limit_order", o_result)
         IN  IF g.raised THEN Result(g, <<>>, except_Exception(g.exc))
             ELSE IF o_result.raised
             THEN Result(g, <<c>>, except_Exception(o_result.exc))
             ELSE Result(g, <<c>>,
                         Returns([success |-> TRUE,
                                  order_id |-> Get(o_result.value, "id", None),
                                  status |-> Get(o_result.value, "status", None)]))

\* a cancellation that reports what the client reported
cancel_order_checking_result(handle, ctor, order_id, o_result) ==
    LET g == get_client(handle, ctor)
        c == Call("cancel_order", o_result)
    IN  IF g.raised THEN Result(g, <<>>, except_Exception(g.exc))
        ELSE IF o_result.raised
        THEN Result(g, <<c>>, except_Exception(o_result.exc))
        ELSE Result(g, <<c>>,
                    Returns([success |-> "canceled" \in DOMAIN o_result.value,
                             order_id |-> order_id,
                             status |-> IF "canceled" \in DOMAIN o_result.value
                                        THEN "cancelled" ELSE "failed"]))

\* DELETE /order/{order_id}
cancel_order(handle, ctor, order_id, o_result) ==
    LET g == get_client(handle, ctor)
        c == Call("cancel_order", o_result)
    IN  IF g.raised THEN Result(g, <<>>, except_Exception(g.exc))
        ELSE IF o_result.raised
        THEN Result(g, <<c>>, except_Exception(o_result.exc))
        ELSE Result(g, <<c>>,
                    Returns([success |-> TRUE,
                             order_id |-> order_id,
                             status |-> "cancelled"]))

\* GET /markets/{token_id}/orderbook
get_orderbook(handle, ctor, token_id, o_orderbook) ==
    LET g == get_client(handle, ctor)
        c == Call("get_order_book", o_orderbook)
    IN  IF g.raised THEN Result(g, <<>>, except_Exception(g.exc))
        ELSE IF o_orderbook.raised
        THEN Result(g, <<c>>, except_Exception(o_orderbook.exc))
        ELSE Result(g, <<c>>,
                    Returns([token_id |-> token_id,
                             bids |-> Get(o_orderbook.value, "bids", List(<<>>)),
                             asks |-> Get(o_orderbook.value, "asks", List(<<>>)),
                             spread |-> Get(o_orderbook.value, "spread", Num(0))]))

-----------------------------------------------------------------------------
(* Requests and what the external client may answer *)

Tokens == {"T1"}
OrderIds == {"O1", "O2"}

OrderRequests ==
    {[token_id |-> t, side |-> "BUY", amount |-> Num(10), price |-> p] :
        t \in Tokens, p \in {None, Num(1)}}

Requests ==
    {[route |-> r] : r \in {"health", "balance", "orders", "positions"}}
    \cup {[route |-> "market", order_request |-> q] :
             q \in {q \in OrderRequests : q.price = None}}
    \cup {[route |-> "limit", order_request |-> q] : q \in OrderRequests}
    \cup {[route |-> "cancel", order_id |-> i] : i \in OrderIds}
    \cup {[route |-> "orderbook", token_id |-> t] : t \in Tokens}

\* failures of the external client, of different kinds
ClientErrors ==
    {Exc("ConnectionError", <<"timeout">>), Exc("PermissionError", <<"unauthorized">>)}

Failing == {Raises(e) : e \in ClientErrors}

\* Polymarket(): a new instance, or a failure to build one
Polymarket ==
    {Returns(instances + 1), Raises(Exc("ValueError", <<"private key missing">>))}

\* what a raw numeric field may hold; a record without the field is Missing
Missing == [t |-> "missing"]
RawNumbers == {Missing, None, Num(3), Chars(<<"2">>), Chars(<<"a", "b">>)}

Raw(base, fields) ==
    [k \in DOMAIN base \cup {f \in DOMAIN fields : fields[f] # Missing} |->
        IF k \in DOMAIN fields THEN fields[k] ELSE base[k]]

\* raw order records: at most one of price and size is not a plain number
RawOrders ==
    {Raw([id |-> Str(i), side |-> Str("BUY")], [price |-> p, size |-> z]) :
        i \in OrderIds,
        p \in RawNumbers, z \in {Missing, None, Num(3)}}

\* raw position records: at most one numeric field is not a plain number
PositionNumbers == {"size", "value", "entry_price", "current_price", "pnl"}
RawPositions ==
    {Raw([asset_id |-> Str(t)], [f \in PositionNumbers |-> IF f = g THEN v ELSE Num(3)]) :
        t \in Tokens, g \in PositionNumbers, v \in RawNumbers}

RECURSIVE Lists(_, _)
Lists(S, n) ==
    IF n = 0 THEN {<<>>}
    ELSE LET shorter == Lists(S, n - 1)
         IN  shorter \cup {Append(l, x) : l \in {l \in shorter : Len(l) = n - 1}, x \in S}

Answers(values) == {Returns(v) : v \in values} \cup Failing

Balances == Answers({Num(25)})
Addresses == Answers({Str("0xA")})
OrderLists == Answers({List(upstream.orders)})
PositionLists == Answers({List(upstream.positions)})
MarketResults ==
    Answers({[id |-> Str("O1"), status |-> Str("FILLED"), filled_amount |-> Num(10)],
             [status |-> Str("REJECTED")]})
LimitResults ==
    Answers({[id |-> Str("O1"), status |-> Str("LIVE")], [status |-> Str("REJECTED")]})
CancelResults ==
    Answers({[canceled |-> List(<<Str("O1")>>)], [not_canceled |-> Str("O1")]})
Orderbooks ==
    Answers({[bids |-> List(<<Str("b1")>>), asks |-> List(<<Str("a1")>>),
              spread |-> Num(1)],
             [market |-> Str("M1")]})

-----------------------------------------------------------------------------
(* The server *)

\* FastAPI: a returned value is a 200 response, an HTTPException is a
\* response of its status code with body {"detail": detail}
Respond(out) ==
    IF out.raised
    THEN [status |-> out.exc.status_code, body |-> [detail |-> out.exc.detail]]
    ELSE [status |-> 200, body |-> out.value]

NoRequest == [route |-> "none"]

\* two venues: one whose records are all well formed, one with a null price
SampleUpstream ==
    {[orders |-> <<[id |-> Str("O1"), price |-> Num(3), size |-> Chars(<<"2">>)],
                   [id |-> Str("O2"), size |-> Num(3)]>>,
      positions |-> <<[asset_id |-> Str("T1"), size |-> Num(3), pnl |-> Num(3)]>>],
     [orders |-> <<[id |-> Str("O1"), price |-> None, size |-> Num(3)]>>,
      positions |-> <<>>]}

\* every venue with orders only or positions only, of up to MaxRecords records
AllUpstream ==
    {[orders |-> l, positions |-> <<>>] : l \in Lists(RawOrders, MaxRecords)}
    \cup {[orders |-> <<>>, positions |-> l] : l \in Lists(RawPositions, MaxRecords)}

Init ==
    /\ polymarket_client = NoClient
    /\ instances = 0
    /\ attempts = 0
    /\ calls = 0
    /\ pending = {}
    /\ upstream \in SampleUpstream
    /\ last = [req |-> NoRequest, pre |-> NoClient, did |-> Result(NoGet(NoClient), <<>>, Returns(None)),
               resp |-> [status |-> 0, body |-> None]]

\* a request reaches the server while others are still in flight
Arrive ==
    /\ Cardinality(pending) < MaxInFlight
    /\ \E req \in Requests \ pending : pending' = pending \cup {req}
    /\ UNCHANGED <<polymarket_client, instances, attempts, calls, upstream, last>>

\* the handlers that reach the client run while Budget holds
Budget == calls < MaxCalls /\ attempts < MaxAttempts

\* the event loop runs the handler of req to its end: did is what it did
Serve(req, did) ==
    /\ polymarket_client' = did.handle
    /\ instances' = instances + (IF did.created THEN 1 ELSE 0)
    /\ attempts' = attempts + (IF did.attempted THEN 1 ELSE 0)
    /\ calls' = calls + Len(did.trace)
    /\ pending' = pending \ {req}
    /\ UNCHANGED upstream
    /\ last' = [req |-> req, pre |-> polymarket_client, did |-> did,
                resp |-> Respond(did.out)]

InFlight(route) == {req \in pending : req.route = route}

GET_health ==
    /\ \E req \in InFlight("health"), ctor \in Polymarket :
           Serve(req, health_check(polymarket_client, ctor))

GET_balance ==
    /\ Budget
    /\ \E req \in InFlight("balance"), ctor \in Polymarket,
          o_balance \in Balances, o_address \in Addresses :
           Serve(req, get_balance(polymarket_client, ctor, o_balance, o_address))

GET_orders ==
    /\ Budget
    /\ \E req \in InFlight("orders"), ctor \in Polymarket, o_orders \in OrderLists :
           Serve(req, get_open_orders(polymarket_client, ctor, o_orders))

GET_positions ==
    /\ Budget
    /\ \E req \in InFlight("positions"), ctor \in Polymarket,
          o_positions \in PositionLists :
           Serve(req, get_positions(polymarket_client, ctor, o_positions))

POST_order_market ==
    /\ Budget
    /\ \E req \in InFlight("market"), ctor \in Polymarket, o_result \in MarketResults :
           Serve(req, place_market_order(polymarket_client, ctor,
                                         req.order_request, o_result))

POST_order_limit ==
    /\ \E req \in InFlight("limit"), ctor \in Polymarket, o_result \in LimitResults,
          strform \in {"empty", "status_detail"} :
           /\ Budget \/ req.order_request.price = None
           /\ Serve(req, place_limit_order(polymarket_client, ctor,
                                        req.order_request, o_result, strform))

DELETE_order ==
    /\ Budget
    /\ \E req \in InFlight("cancel"), ctor \in Polymarket, o_result \in CancelResults :
           Serve(req, cancel_order(polymarket_client, ctor, req.order_id, o_result))

GET_orderbook ==
    /\ Budget
    /\ \E req \in InFlight("orderbook"), ctor \in Polymarket, o_orderbook \in Orderbooks :
           Serve(req, get_orderbook(polymarket_client, ctor, req.token_id, o_orderbook))

Next ==
    \/ Arrive
    \/ GET_health
    \/ GET_balance
    \/ GET_orders
    \/ GET_positions
    \/ POST_order_market
    \/ POST_order_limit
    \/ DELETE_order
    \/ GET_orderbook

Spec == Init /\ [][Next]_vars

\* GET /orders and GET /positions in flight together on a fresh server,
\* against every venue of AllUpstream
InitNorm ==
    /\ polymarket_client = NoClient
    /\ instances = 0
    /\ attempts = 0
    /\ calls = 0
    /\ pending = {[route |-> "orders"], [route |-> "positions"]}
    /\ upstream \in AllUpstream
    /\ last = [req |-> NoRequest, pre |-> NoClient, did |-> Result(NoGet(NoClient), <<>>, Returns(None)),
               resp |-> [status |-> 0, body |-> None]]

NextNorm ==
    \/ GET_orders
    \/ GET_positions

SpecNorm == InitNorm /\ [][NextNorm]_vars

-----------------------------------------------------------------------------
(* Vocabulary of the properties *)

Contains(text, fragment) == \E i \in 1..Len(text) : text[i] = fragment

LimitWithoutPrice(req) == req.route = "limit" /\ req.order_request.price = None

\* the requests whose handler reaches get_client()
ClientDependent(req) ==
    req.route \notin {"none", "health"} /\ ~LimitWithoutPrice(req)

\* the requests whose handling ends in the step
Served == pending \ pending'

\* a client call of the last request raised
ClientRaised ==
    /\ last.did.trace # <<>>
    /\ last.did.trace[Len(last.did.trace)].outcome.raised

\* the raw list the client returned to the last request, and the normalized one
RawList == last.did.trace[1].outcome.value.l
NormalizedList ==
    IF last.req.route = "orders" THEN last.resp.body.orders ELSE last.resp.body.positions

GotList ==
    /\ last.req.route \in {"orders", "positions"}
    /\ last.did.trace # <<>>
    /\ ~last.did.trace[1].outcome.raised

NumericFields ==
    IF last.req.route = "orders" THEN {"price", "size"} ELSE PositionNumbers

NotANumber(v) ==
    \/ v = Missing
    \/ v = None
    \/ v.t = "str" /\ float(v).raised

-----------------------------------------------------------------------------
(* C1: POST /order/limit without a price answers 400 with a detail that    *)
(* contains "Price is required for limit orders", whatever the handle.     *)
C1_LimitWithoutPriceIs400 ==
    LimitWithoutPrice(last.req) =>
        /\ last.resp.status = 400
        /\ Contains(last.resp.body.detail, "Price is required for limit orders")

(* C2: a construction that raises gives a 500 whose detail is the          *)
(* construction error's message and leaves the handle unset; a request     *)
(* that needs the client and finds the handle unset attempts construction  *)
(* (again), and a construction that returns sets the handle.               *)
C2_ConstructionFailureNotCached ==
    /\ last.did.ctor_raised =>
           /\ last.resp = [status |-> 500, body |-> [detail |-> last.did.ctor_exc.str]]
           /\ last.did.trace = <<>>
           /\ polymarket_client = NoClient
    /\ ClientDependent(last.req) /\ last.pre = NoClient => last.did.attempted
    /\ last.did.attempted /\ ~last.did.ctor_raised =>
           /\ polymarket_client # NoClient
           /\ ClientRaised \/ last.resp.status = 200 \/ GotList

C2_RetrySucceeded ==
    /\ attempts = 2
    /\ instances = 1
    /\ last.did.created
    /\ last.resp.status = 200

(* C3: the client is constructed successfully at most once; once the       *)
(* handle is set no step replaces or clears it, and every later handler    *)
(* that calls get_client() gets that same instance without constructing.   *)
C3_CreatedAtMostOnce ==
    [][/\ instances' <= 1
       /\ polymarket_client # NoClient =>
              /\ polymarket_client' = polymarket_client
              /\ \A req \in Served :
                     ClientDependent(req) =>
                         /\ last'.did.handle = polymarket_client
                         /\ ~last'.did.attempted]_vars

C3_SharedInstanceReused ==
    /\ instances = 1
    /\ last.pre # NoClient
    /\ ClientDependent(last.req)
    /\ last.did.handle = last.pre
    /\ \E req \in pending : ClientDependent(req)

(* C4: given the raw list of GET /orders or GET /positions, the request    *)
(* does not fail, and every numeric field that is missing, null or not a   *)
(* number is 0 in the normalized record.                                   *)
C4_BadNumberBecomesZero ==
    GotList =>
        /\ last.resp.status = 200
        /\ \A i \in 1..Len(RawList), f \in NumericFields :
               NotANumber(Get(RawList[i], f, Missing)) =>
                   NormalizedList[i][f] = Num(0)

(* C5: DELETE /order/{id} answers 500 exactly when construction or         *)
(* cancel_order(id) raises, and otherwise {success: true, order_id: id,    *)
(* status: "cancelled"} with the requested id, whatever cancel_order       *)
(* returned.                                                               *)
C5_CancelSucceedsUnlessRaise ==
    last.req.route = "cancel" =>
        IF last.did.ctor_raised \/ ClientRaised
        THEN last.resp.status = 500
        ELSE last.resp =
                 [status |-> 200,
                  body |-> [success |-> TRUE, order_id |-> last.req.order_id,
                            status |-> "cancelled"]]

C5_CancelledThoughNotCancelled ==
    /\ last.req.route = "cancel"
    /\ last.req.order_id = "O1"
    /\ last.resp.status = 200
    /\ last.did.trace[1].outcome.value = [not_canceled |-> Str("O1")]

(* C6: a failure raised by the client gives status 500 with body           *)
(* {detail: message}, the failure's text verbatim; 400 is answered to      *)
(* nothing but a limit order without price (and, by C1, not to that        *)
(* either); a response is either a 200 with no detail or an error whose    *)
(* body is {detail} alone.                                                 *)
C6_ClientFailureIs500 ==
    last.req # NoRequest =>
        /\ ClientRaised =>
               last.resp =
                   [status |-> 500,
                    body |-> [detail |->
                        last.did.trace[Len(last.did.trace)].outcome.exc.str]]
        /\ last.resp.status \in {200, 400, 500}
        /\ last.resp.status = 400 => LimitWithoutPrice(last.req)
        /\ last.resp.status = 200 <=> ~last.did.out.raised
        /\ last.resp.status = 200 => "detail" \notin DOMAIN last.resp.body
        /\ last.resp.status # 200 => DOMAIN last.resp.body = {"detail"}

C6_SecondCallFailed ==
    /\ last.req.route = "balance"
    /\ Len(last.did.trace) = 2
    /\ ClientRaised
    /\ last.did.trace[2].outcome.exc.cls = "PermissionError"
    /\ last.resp.status = 500

(* C7: handling a POST /order/limit without price calls no client method   *)
(* and starts no construction: handle, instances, attempts and the count   *)
(* of client calls are what they were.                                     *)
C7_LimitWithoutPriceTouchesNothing ==
    [][\A req \in Served :
           LimitWithoutPrice(req) =>
               /\ polymarket_client' = polymarket_client
               /\ calls' = calls
               /\ attempts' = attempts
               /\ instances' = instances
               /\ last'.did.trace = <<>>]_vars

C7_RejectedWhileUnset ==
    /\ LimitWithoutPrice(last.req)
    /\ last.pre = NoClient
    /\ polymarket_client = NoClient
    /\ attempts = 0
    /\ calls = 0

(* C8: in a successful GET /orders or GET /positions response, total is    *)
(* the length of the list, which is the number of raw records, and record  *)
(* i of the list is the normalization of raw record i.                     *)
C8_TotalIsLength ==
    GotList /\ last.resp.status = 200 =>
        /\ last.resp.body.total = Len(NormalizedList)
        /\ Len(NormalizedList) = Len(RawList)
        /\ \A i \in 1..Len(RawList) :
               /\ last.req.route = "orders" =>
                      NormalizedList[i].id = Get(RawList[i], "id", None)
               /\ \A f \in NumericFields :
                      NormalizedList[i][f] = float(Get(RawList[i], f, Num(0))).value

C8_TwoOrdersInOrder ==
    /\ last.req.route = "orders"
    /\ last.resp.status = 200
    /\ Len(RawList) = 2
    /\ RawList[1].id = Str("O2")
    /\ RawList[2].id = Str("O1")
    /\ "price" \notin DOMAIN RawList[1]

(* C9: GET /health answers {status: "ok", service:                         *)
(* "polymarket-clob-bridge"} in every state, and leaves the handle, the    *)
(* constructions and the client calls as they were.                        *)
C9_HealthAlwaysOk ==
    [][\A req \in Served :
           req.route = "health" =>
               /\ last'.resp =
                      [status |-> 200,
                       body |-> [status |-> "ok", service |-> "polymarket-clob-bridge"]]
               /\ polymarket_client' = polymarket_client
               /\ calls' = calls
               /\ attempts' = attempts
               /\ instances' = instances]_vars

C9_HealthAfterFailedConstruction ==
    /\ last.req.route = "health"
    /\ attempts = MaxAttempts
    /\ polymarket_client = NoClient
    /\ last.resp.status = 200

(* C10, as stated: a handler that obtained the client makes exactly one    *)
(* call into it.                                                           *)
C10_ExactlyOneClientCall ==
    ClientDependent(last.req) /\ ~last.did.ctor_raised =>
        Len(last.did.trace) = 1

MethodOf(route) ==
    CASE route = "orders" -> "get_orders"
      [] route = "positions" -> "get_positions"
      [] route = "market" -> "place_market_order"
      [] route = "limit" -> "place_limit_order"
      [] route = "cancel" -> "cancel_order"
      [] route = "orderbook" -> "get_order_book"

(* C10, amended: a handler makes no call when construction raises;         *)
(* otherwise /balance calls get_balance and, if that returned,             *)
(* get_address_for_private_key, and every other handler makes exactly one  *)
(* call, its own method; no call is made again after a failure.            *)
C10_OneCallExceptBalance ==
    ClientDependent(last.req) =>
        LET trace == last.did.trace
        IN  IF last.did.ctor_raised THEN trace = <<>>
            ELSE IF last.req.route = "balance"
            THEN /\ Len(trace) \in {1, 2}
                 /\ trace[1].method = "get_balance"
                 /\ Len(trace) = 1 <=> trace[1].outcome.raised
                 /\ Len(trace) = 2 => trace[2].method = "get_address_for_private_key"
            ELSE /\ Len(trace) = 1
                 /\ trace[1].method = MethodOf(last.req.route)

C10_FailedAndNotRetried ==
    /\ last.req.route = "market"
    /\ Len(last.did.trace) = 1
    /\ ClientRaised
    /\ last.resp.status = 500

====
